---- MODULE Spec2Model ----
(***************************************************************************)
(* PDF storage server: the object-store revision (src/server.js, AWS SDK   *)
(* v3) and the filesystem revision (src/unnamed/part_000).  Each HTTP      *)
(* handler is modelled by one action per point at which it touches the     *)
(* backing store; the store executes one call at a time, and awaited calls *)
(* of different requests interleave freely.                                *)
(***************************************************************************)
EXTENDS Integers, Sequences, FiniteSets, TLC

\* ---------------------------------------------------------------- bounds
MaxIds == 2        \* how many identifiers crypto.randomUUID() can hand out
MaxClock == 1      \* the largest millisecond the clock reaches
MaxFaults == 1     \* how many store calls may fail with a store error
MaxInFlight == 2   \* how many requests may be awaiting the store at once
MaxRequests == 4   \* how many requests the server receives in a run
MaxListed == 3     \* how many documents the store of SpecListing may hold
MaxListedDate == 2 \* the latest upload date of a document of SpecListing

\* ------------------------------------------------------ program constants
MaxKeys == 1000

Ids == 1..MaxIds
PdfMediaType == "application/pdf"
\* The text "data:application/pdf;base64," as one token of a pdfData string;
\* the tokens of the base64 text proper are its sextets, 0..63.
DataUrlPrefix == << -1 >>
DefaultOriginalName == "purchase-agreement.pdf"
DefaultBuyerName == "Unknown"
\* Mutant of DefaultFilename: the upload's default name used for the fallback.
MisnamedDefault == "purchase-agreement.pdf"
DefaultFilename == "document.pdf"

\* --------------------------------------------------------- request inputs
\* The inbound request's protocol and host, from which public URLs are built.
Req == [protocol |-> "https", host |-> "pdf.example"]

\* multer's req.file: the part's bytes and the media type the client declared.
Files ==
    { [buffer |-> <<37, 80>>, mimetype |-> "application/pdf"],
      [buffer |-> <<66>>, mimetype |-> "text/plain"] }

\* The form fields / JSON members; "" stands for an absent or empty field.
Forms ==
    { [originalName |-> "a.pdf", buyerName |-> "Bob"],
      [originalName |-> "", buyerName |-> ""] }

\* What a client of the base64 endpoint sends for the bytes b: the base64
\* text of b as a sequence of sextets (padding characters carry no data).
RECURSIVE Base64Encode(_)
Base64Encode(b) ==
    IF b = <<>> THEN <<>>
    ELSE IF Len(b) = 1 THEN << b[1] \div 4, (b[1] % 4) * 16 >>
    ELSE IF Len(b) = 2
         THEN << b[1] \div 4, (b[1] % 4) * 16 + b[2] \div 16, (b[2] % 16) * 4 >>
    ELSE << b[1] \div 4, (b[1] % 4) * 16 + b[2] \div 16,
            (b[2] % 16) * 4 + b[3] \div 64, b[3] % 64 >>
         \o Base64Encode(SubSeq(b, 4, Len(b)))

\* The bytes a base64 client uploads, and what may precede their base64 text.
ClientBytes == { <<37, 80>> }
Heads == { <<>>, DataUrlPrefix }

\* ------------------------------------------------------- pure conversions
\* JavaScript's x || d on strings.
OrDefault(x, d) == IF x = "" THEN d ELSE x

\* Mutant of StripDataUrl: the prefix is left in place.
StripNothing(pdfData) == pdfData

\* pdfData.replace(/^data:application\/pdf;base64,/, '')
StripDataUrl(pdfData) ==
    IF /\ Len(pdfData) >= Len(DataUrlPrefix)
       /\ SubSeq(pdfData, 1, Len(DataUrlPrefix)) = DataUrlPrefix
    THEN SubSeq(pdfData, Len(DataUrlPrefix) + 1, Len(pdfData))
    ELSE pdfData

\* Buffer.from(base64Data, 'base64')
RECURSIVE BufferFromBase64(_)
BufferFromBase64(s) ==
    IF Len(s) < 2 THEN <<>>
    ELSE IF Len(s) = 2 THEN << (s[1] * 4 + s[2] \div 16) % 256 >>
    ELSE IF Len(s) = 3
         THEN << (s[1] * 4 + s[2] \div 16) % 256,
                 ((s[2] % 16) * 16 + s[3] \div 4) % 256 >>
    ELSE << (s[1] * 4 + s[2] \div 16) % 256,
            ((s[2] % 16) * 16 + s[3] \div 4) % 256,
            ((s[3] % 4) * 64 + s[4]) % 256 >>
         \o BufferFromBase64(SubSeq(s, 5, Len(s)))

\* new Date().toISOString(): the clock's milliseconds as fixed-width text.
ToISOString(ms) == << ms \div 10, ms % 10 >>

\* new Date(text): the milliseconds the text denotes.
DateOf(text) == text[1] * 10 + text[2]

\* JSON.stringify(metadata, null, 2): the members in insertion order.
ObjectStoreFields ==
    << "id", "originalName", "buyerName", "uploadDate", "fileSize", "contentType" >>
FilesystemFields ==
    << "id", "originalName", "buyerName", "uploadDate", "fileSize" >>
JSONstringify(obj, fields) ==
    [k \in 1..Len(fields) |-> << fields[k], obj[fields[k]] >>]

\* JSON.parse(text): the object with the text's members.
JSONparse(text) ==
    [f \in {text[k][1] : k \in 1..Len(text)} |->
        text[CHOOSE k \in 1..Len(text) : text[k][1] = f][2]]

\* `${req.protocol}://${req.get('host')}/pdf/${id}`
PublicUrl(id) == << Req.protocol, Req.host, "pdf", id >>

\* { ...metadata, url }
WithUrl(m) ==
    [f \in DOMAIN m \cup {"url"} |-> IF f = "url" THEN PublicUrl(m.id) ELSE m[f]]

\* Mutant of CompareByUploadDate: the operands swapped, oldest first.
CompareOldestFirst(a, b) == DateOf(a.uploadDate) - DateOf(b.uploadDate)

\* The listing's comparator: (a, b) => new Date(b.uploadDate) - new Date(a.uploadDate)
CompareByUploadDate(a, b) == DateOf(b.uploadDate) - DateOf(a.uploadDate)

\* Array.prototype.sort with that comparator (a stable sort).
RECURSIVE InsertSorted(_, _)
InsertSorted(s, x) ==
    IF s = <<>> THEN << x >>
    ELSE IF CompareByUploadDate(s[Len(s)], x) > 0
         THEN Append(InsertSorted(SubSeq(s, 1, Len(s) - 1), x), s[Len(s)])
         ELSE Append(s, x)

RECURSIVE SortByUploadDate(_)
SortByUploadDate(s) ==
    IF s = <<>> THEN <<>>
    ELSE InsertSorted(SortByUploadDate(SubSeq(s, 1, Len(s) - 1)), s[Len(s)])

\* ----------------------------------------------------------- key/value store
PutObject(store, key, body) ==
    [k \in DOMAIN store \cup {key} |-> IF k = key THEN body ELSE store[k]]

DeleteObject(store, key) ==
    [k \in DOMAIN store \ {key} |-> store[k]]

\* The keys of a prefix in the order a listing returns them.
RECURSIVE KeysInOrder(_)
KeysInOrder(S) ==
    IF S = {} THEN <<>>
    ELSE LET m == CHOOSE x \in S : \A y \in S : x <= y
         IN  << m >> \o KeysInOrder(S \ {m})

Take(s, n) == SubSeq(s, 1, IF Len(s) < n THEN Len(s) ELSE n)

\* Every order in which a directory listing may return the names S.
Orderings(S) ==
    { p \in [1..Cardinality(S) -> S] : \A a \in S : \E k \in DOMAIN p : p[k] = a }


\* ------------------------------------------------------------------ state
VARIABLES
    variant,    \* which revision runs: "s3" (src/server.js) or "fs" (part_000)
    clock,      \* the wall clock new Date() reads, in milliseconds
    pdfs,       \* the stored blobs: pdfs/<id>.pdf, or <pdfDir>/<id>.pdf
    metadata,   \* the stored sidecars: metadata/<id>.json, or <pdfDir>/<id>.json
    uploads,    \* per generated id: the upload request and its two puts
    deletes,    \* per id: the latest DELETE request and its two deletes
    reader,     \* the GET /pdf/:id or GET /admin/pdfs request that is in flight
    res,        \* the response sent last
    known,      \* the ids a client has been told (upload or listing responses)
    faults,     \* how many store calls have failed with a store error
    faulted,    \* the ids one of whose puts or deletes failed
    raced,      \* the ids whose DELETE was issued while their upload was in flight
    delOk,      \* the ids one of whose DELETEs was answered with success
    requests    \* how many requests the server has received

vars ==
    << variant, clock, pdfs, metadata, uploads, deletes, reader, res, known,
       faults, faulted, raced, delOk, requests >>

NoObject == [k \in {} |-> 0]
Idle == [op |-> "none"]

\* An HTTP response; the fields an endpoint does not set keep these defaults.
\* failed: the store calls of the request that ended in an error (NoSuchKey
\* included); fault: one of them was a store error other than NoSuchKey;
\* listed: the keys a listing found; afterDel, afterUp, bare: what held when
\* the request started (see GetPdf).
Response(op, id, status) ==
    [ op |-> op, id |-> id, status |-> status, body |-> <<>>, filename |-> "",
      record |-> NoObject, pdfs |-> <<>>, total |-> 0, listed |-> {},
      failed |-> {},
      fault |-> FALSE, afterDel |-> FALSE, afterUp |-> FALSE, bare |-> FALSE ]

InFlight(req) == req.pdf = "pending" \/ req.meta = "pending"

UploadInFlight(i) == i \in DOMAIN uploads /\ InFlight(uploads[i])
DeleteInFlight(i) == i \in DOMAIN deletes /\ InFlight(deletes[i])

\* Mutant of PromiseAll: Promise.allSettled, which never rejects.
PromiseAllSettled(req) ==
    IF req.answered # 0 THEN req.answered
    ELSE IF req.pdf # "pending" /\ req.meta # "pending" THEN 200
    ELSE 0

\* Mutant of PromiseAll: Promise.any, which resolves with the first success.
PromiseAny(req) ==
    IF req.answered # 0 THEN req.answered
    ELSE IF req.pdf = "ok" \/ req.meta = "ok" THEN 200
    ELSE IF req.pdf = "failed" /\ req.meta = "failed" THEN 500
    ELSE 0

\* await Promise.all([a, b]): rejects with the first call that fails, resolves
\* when both have succeeded; 0 while neither has happened.  A handler answers
\* once: later settlements change nothing.
PromiseAll(req) ==
    IF req.answered # 0 THEN req.answered
    ELSE IF req.pdf = "failed" \/ req.meta = "failed" THEN 500
    ELSE IF req.pdf = "ok" /\ req.meta = "ok" THEN 200
    ELSE 0

Init ==
    /\ variant \in {"s3", "fs"}
    /\ clock = 0
    /\ pdfs = NoObject
    /\ metadata = NoObject
    /\ uploads = NoObject
    /\ deletes = NoObject
    /\ reader = Idle
    /\ res = Idle
    /\ known = {}
    /\ faults = 0
    /\ faulted = {}
    /\ raced = {}
    /\ delOk = {}
    /\ requests = 0

\* How many requests have a store call outstanding.
Awaiting ==
    Cardinality({i \in DOMAIN uploads : InFlight(uploads[i])})
    + Cardinality({i \in DOMAIN deletes : InFlight(deletes[i])})
    + (IF reader = Idle THEN 0 ELSE 1)

\* A request arrives.
Receive == requests < MaxRequests /\ requests' = requests + 1

\* new Date(): the clock reads now, at or after its last reading.
Now == clock..MaxClock

\* ------------------------------------------------- uploads (object store)
\* if (!req.file) return res.status(400)
UploadNoFile ==
    /\ Receive
    /\ res' = Response("upload", 0, 400)
    /\ UNCHANGED << variant, clock, pdfs, metadata, uploads, deletes, reader,
                    known, faults, faulted, raced, delOk >>

\* if (!pdfData) return res.status(400)
UploadNoPdfData ==
    /\ Receive
    /\ res' = Response("upload", 0, 400)
    /\ UNCHANGED << variant, clock, pdfs, metadata, uploads, deletes, reader,
                    known, faults, faulted, raced, delOk >>

\* The metadata object of POST /upload-pdf.
FileMetadata(uniqueId, file, form, now) ==
    [ id |-> uniqueId,
      originalName |-> OrDefault(form.originalName, DefaultOriginalName),
      buyerName |-> OrDefault(form.buyerName, DefaultBuyerName),
      uploadDate |-> ToISOString(now),
      fileSize |-> Len(file.buffer),
      contentType |-> file.mimetype ]

\* The metadata object of POST /upload-pdf-base64.
Base64Metadata(uniqueId, buffer, form, now) ==
    [ id |-> uniqueId,
      originalName |-> OrDefault(form.originalName, DefaultOriginalName),
      buyerName |-> OrDefault(form.buyerName, DefaultBuyerName),
      uploadDate |-> ToISOString(now),
      fileSize |-> Len(buffer),
      contentType |-> PdfMediaType ]

\* The two PutObjectCommands of an upload, sent together.
SendPuts(uniqueId, buffer, m, sent, now) ==
    /\ Awaiting < MaxInFlight
    /\ clock' = now
    /\ Receive
    /\ uploads' = PutObject(uploads, uniqueId,
          [ pdf |-> "pending", meta |-> "pending", answered |-> 0,
            buffer |-> buffer, json |-> JSONstringify(m, ObjectStoreFields),
            metadata |-> m, sent |-> sent ])
    /\ UNCHANGED << variant, pdfs, metadata, deletes, reader, res,
                    known, faults, faulted, raced, delOk >>

UploadPdf ==
    /\ variant = "s3"
    /\ \E file \in Files, form \in Forms, uniqueId \in Ids \ DOMAIN uploads,
          now \in Now :
          SendPuts(uniqueId, file.buffer, FileMetadata(uniqueId, file, form, now),
                   [ bytes |-> file.buffer, originalName |-> form.originalName,
                     buyerName |-> form.buyerName ], now)

UploadPdfBase64 ==
    /\ variant = "s3"
    /\ \E b \in ClientBytes, head \in Heads, form \in Forms,
          uniqueId \in Ids \ DOMAIN uploads, now \in Now :
          LET pdfData == head \o Base64Encode(b)
              buffer == BufferFromBase64(StripDataUrl(pdfData))
          IN  SendPuts(uniqueId, buffer, Base64Metadata(uniqueId, buffer, form, now),
                       [ bytes |-> b, originalName |-> form.originalName,
                         buyerName |-> form.buyerName ], now)

\* The upload's response when its Promise.all settles.
UploadResponse(i, req, call) ==
    IF req.answered = 200
    THEN [ Response("upload", i, 200) EXCEPT !.record = req.metadata ]
    ELSE [ Response("upload", i, 500) EXCEPT !.failed = {call}, !.fault = TRUE ]

\* One put of an upload reaches the store and succeeds or fails.
Put(i, call, ok) ==
    /\ i \in DOMAIN uploads
    /\ uploads[i][call] = "pending"
    /\ ok \/ faults < MaxFaults
    /\ LET done == [uploads[i] EXCEPT ![call] = IF ok THEN "ok" ELSE "failed"]
           req == [done EXCEPT !.answered = PromiseAll(done)]
       IN  /\ uploads' = [uploads EXCEPT ![i] = req]
           /\ res' = IF uploads[i].answered = 0 /\ req.answered # 0
                     THEN UploadResponse(i, req, call) ELSE res
           /\ known' = IF req.answered = 200 THEN known \cup {i} ELSE known
    /\ faults' = IF ok THEN faults ELSE faults + 1
    /\ faulted' = IF ok THEN faulted ELSE faulted \cup {i}
    /\ UNCHANGED << variant, clock, deletes, reader, raced, delOk, requests >>

PutPdf ==
    \E i \in Ids, ok \in BOOLEAN :
        /\ Put(i, "pdf", ok)
        /\ pdfs' = IF ok THEN PutObject(pdfs, i, uploads[i].buffer) ELSE pdfs
        /\ UNCHANGED metadata

PutMetadata ==
    \E i \in Ids, ok \in BOOLEAN :
        /\ Put(i, "meta", ok)
        /\ metadata' = IF ok THEN PutObject(metadata, i, uploads[i].json) ELSE metadata
        /\ UNCHANGED pdfs


\* ------------------------------------------------- deletes (object store)
\* DELETE /admin/pdf/:id sends its two DeleteObjectCommands together.
\* The id in the path is one a response has told a client: identifiers are
\* random UUIDs, not guessed.
DeletePdf ==
    /\ variant = "s3"
    /\ Receive
    /\ Awaiting < MaxInFlight
    /\ \E id \in known :
          /\ ~DeleteInFlight(id)
          /\ deletes' = PutObject(deletes, id,
                [pdf |-> "pending", meta |-> "pending", answered |-> 0])
          /\ raced' = IF UploadInFlight(id) THEN raced \cup {id} ELSE raced
    /\ UNCHANGED << variant, clock, pdfs, metadata, uploads, reader, res, known,
                    faults, faulted, delOk >>

DeleteResponse(id, req, call) ==
    IF req.answered = 200
    THEN Response("delete", id, 200)
    ELSE [ Response("delete", id, 500) EXCEPT !.failed = {call}, !.fault = TRUE ]

\* One delete of a DELETE request reaches the store and succeeds or fails.
\* Deleting a key that does not exist succeeds.
Delete(id, call, ok) ==
    /\ id \in DOMAIN deletes
    /\ deletes[id][call] = "pending"
    /\ ok \/ faults < MaxFaults
    /\ LET done == [deletes[id] EXCEPT ![call] = IF ok THEN "ok" ELSE "failed"]
           req == [done EXCEPT !.answered = PromiseAll(done)]
       IN  /\ deletes' = [deletes EXCEPT ![id] = req]
           /\ res' = IF deletes[id].answered = 0 /\ req.answered # 0
                     THEN DeleteResponse(id, req, call) ELSE res
           /\ delOk' = IF req.answered = 200 THEN delOk \cup {id} ELSE delOk
    /\ faults' = IF ok THEN faults ELSE faults + 1
    /\ faulted' = IF ok THEN faulted ELSE faulted \cup {id}
    /\ UNCHANGED << variant, clock, uploads, reader, known, raced, requests >>

DeletePdfObject ==
    \E id \in Ids, ok \in BOOLEAN :
        /\ Delete(id, "pdf", ok)
        /\ pdfs' = IF ok THEN DeleteObject(pdfs, id) ELSE pdfs
        /\ UNCHANGED metadata

\* Mutant of DeleteMetadataObject: the delete is acknowledged, the key stays.
DeleteMetadataObjectKept ==
    \E id \in Ids, ok \in BOOLEAN :
        /\ Delete(id, "meta", ok)
        /\ UNCHANGED << pdfs, metadata >>

DeleteMetadataObject ==
    \E id \in Ids, ok \in BOOLEAN :
        /\ Delete(id, "meta", ok)
        /\ metadata' = IF ok THEN DeleteObject(metadata, id) ELSE metadata
        /\ UNCHANGED pdfs

\* --------------------------------------------------- reads (object store)
UploadAnswered(id) == id \in DOMAIN uploads /\ uploads[id].answered = 200
Bare(id) == id \in DOMAIN pdfs /\ id \notin DOMAIN metadata

\* GET /pdf/:id, first await: the blob.  NoSuchKey is answered 404, any other
\* error 500; otherwise the handler goes on to read the metadata.
GetPdf ==
    /\ variant = "s3"
    /\ Receive
    /\ reader = Idle
    /\ Awaiting < MaxInFlight
    /\ \E id \in Ids, ok \in BOOLEAN :
          LET r == [ Response("pdf", id, 0) EXCEPT
                        !.afterDel = id \in delOk,
                        !.afterUp = UploadAnswered(id),
                        !.bare = Bare(id) ]
          IN  /\ ok \/ faults < MaxFaults
              /\ faults' = IF ok THEN faults ELSE faults + 1
              /\ IF ~ok
                 THEN /\ res' = [r EXCEPT !.status = 500, !.failed = {"pdf"},
                                          !.fault = TRUE]
                      /\ UNCHANGED reader
                 ELSE IF id \notin DOMAIN pdfs
                 THEN /\ res' = [r EXCEPT !.status = 404, !.failed = {"pdf"}]
                      /\ UNCHANGED reader
                 ELSE /\ reader' = [r EXCEPT !.body = pdfs[id]]
                      /\ UNCHANGED res
    /\ UNCHANGED << variant, clock, pdfs, metadata, uploads, deletes, known,
                    faulted, raced, delOk >>

\* Mutant of GetPdfFilename: no inner try/catch, so a failed metadata read
\* reaches the handler's catch: NoSuchKey is answered 404, another error 500.
GetPdfFilenameUncaught ==
    /\ reader # Idle
    /\ reader.op = "pdf"
    /\ \E ok \in BOOLEAN :
          LET id == reader.id
              found == ok /\ id \in DOMAIN metadata
          IN  /\ ok \/ faults < MaxFaults
              /\ faults' = IF ok THEN faults ELSE faults + 1
              /\ res' = IF found
                        THEN [ reader EXCEPT
                                 !.status = 200,
                                 !.filename = OrDefault(
                                     JSONparse(metadata[id]).originalName,
                                     DefaultFilename),
                                 !.bare = FALSE ]
                        ELSE [ reader EXCEPT
                                 !.status = IF ok THEN 404 ELSE 500,
                                 !.body = <<>>,
                                 !.failed = {"meta"},
                                 !.fault = ~ok,
                                 !.bare = reader.bare /\ Bare(id) ]
    /\ reader' = Idle
    /\ UNCHANGED << variant, clock, pdfs, metadata, uploads, deletes, known,
                    faulted, raced, delOk, requests >>

\* GET /pdf/:id, second await: the metadata, for the filename.  Whatever goes
\* wrong here is caught and leaves the default filename.
GetPdfFilename ==
    /\ reader # Idle
    /\ reader.op = "pdf"
    /\ \E ok \in BOOLEAN :
          LET id == reader.id
              found == ok /\ id \in DOMAIN metadata
              filename ==
                  IF found
                  THEN OrDefault(JSONparse(metadata[id]).originalName, DefaultFilename)
                  ELSE DefaultFilename
          IN  /\ ok \/ faults < MaxFaults
              /\ faults' = IF ok THEN faults ELSE faults + 1
              /\ res' = [ reader EXCEPT
                            !.status = 200,
                            !.filename = filename,
                            !.failed = IF found THEN {} ELSE {"meta"},
                            !.fault = ~ok,
                            !.bare = reader.bare /\ Bare(id) ]
    /\ reader' = Idle
    /\ UNCHANGED << variant, clock, pdfs, metadata, uploads, deletes, known,
                    faulted, raced, delOk, requests >>

\* GET /pdf/:id/info
GetPdfInfo ==
    /\ variant = "s3"
    /\ Receive
    /\ \E id \in Ids, ok \in BOOLEAN :
          LET r == [ Response("info", id, 0) EXCEPT
                        !.afterDel = id \in delOk,
                        !.afterUp = UploadAnswered(id) ]
          IN  /\ ok \/ faults < MaxFaults
              /\ faults' = IF ok THEN faults ELSE faults + 1
              /\ res' = IF ~ok
                        THEN [r EXCEPT !.status = 500, !.failed = {"meta"},
                                       !.fault = TRUE]
                        ELSE IF id \notin DOMAIN metadata
                        THEN [r EXCEPT !.status = 404, !.failed = {"meta"}]
                        ELSE [r EXCEPT !.status = 200,
                                       !.record = JSONparse(metadata[id])]
    /\ UNCHANGED << variant, clock, pdfs, metadata, uploads, deletes, reader,
                    known, faulted, raced, delOk >>

\* pdfs.filter(pdf => pdf !== null)
RECURSIVE FilterNotNull(_)
FilterNotNull(results) ==
    IF results = <<>> THEN <<>>
    ELSE (IF results[1].st = "ok" THEN << results[1].val >> ELSE <<>>)
         \o FilterNotNull(Tail(results))

\* res.json({ pdfs: validPdfs, total: validPdfs.length })
ListResponse(results) ==
    LET validPdfs == SortByUploadDate(FilterNotNull(results))
    IN  [ Response("list", 0, 200) EXCEPT
            !.pdfs = validPdfs,
            !.total = Len(validPdfs),
            !.listed = { results[k].key : k \in DOMAIN results },
            !.failed = IF \E k \in DOMAIN results : results[k].st # "ok"
                       THEN {"meta"} ELSE {},
            !.fault = \E k \in DOMAIN results : results[k].st = "fault" ]

IdsOf(listed) == { listed[k].id : k \in DOMAIN listed }

\* GET /admin/pdfs, first await: the keys under metadata/, at most MaxKeys.
ListPdfs ==
    /\ variant = "s3"
    /\ Receive
    /\ reader = Idle
    /\ Awaiting < MaxInFlight
    /\ \E ok \in BOOLEAN :
          LET keys == Take(KeysInOrder(DOMAIN metadata), MaxKeys)
          IN  /\ ok \/ faults < MaxFaults
              /\ faults' = IF ok THEN faults ELSE faults + 1
              /\ IF ~ok
                 THEN /\ res' = [ Response("list", 0, 500) EXCEPT
                                    !.failed = {"list"}, !.fault = TRUE ]
                      /\ UNCHANGED reader
                 ELSE IF keys = <<>>
                 THEN /\ res' = ListResponse(<<>>)
                      /\ UNCHANGED reader
                 ELSE /\ reader' = [ op |-> "list", keys |-> keys,
                                     results |-> [k \in DOMAIN keys |->
                                         [key |-> keys[k], st |-> "pending",
                                          val |-> NoObject]] ]
                      /\ UNCHANGED res
    /\ UNCHANGED << variant, clock, pdfs, metadata, uploads, deletes, known,
                    faulted, raced, delOk >>

\* GET /admin/pdfs, the reads of the listed objects, all sent together.  A
\* read that fails is caught and yields null; when the last one settles the
\* handler filters, sorts and answers.
ListGetObject ==
    /\ reader # Idle
    /\ reader.op = "list"
    /\ \E k \in DOMAIN reader.keys, ok \in BOOLEAN :
          LET key == reader.keys[k]
              result ==
                  IF ~ok THEN [key |-> key, st |-> "fault", val |-> NoObject]
                  ELSE IF key \notin DOMAIN metadata
                  THEN [key |-> key, st |-> "null", val |-> NoObject]
                  ELSE [key |-> key, st |-> "ok",
                        val |-> WithUrl(JSONparse(metadata[key]))]
              results == [reader.results EXCEPT ![k] = result]
              settled == \A j \in DOMAIN results : results[j].st # "pending"
          IN  /\ reader.results[k].st = "pending"
              /\ ok \/ faults < MaxFaults
              /\ faults' = IF ok THEN faults ELSE faults + 1
              /\ reader' = IF settled THEN Idle ELSE [reader EXCEPT !.results = results]
              /\ res' = IF settled THEN ListResponse(results) ELSE res
              /\ known' = IF settled
                          THEN known \cup IdsOf(FilterNotNull(results)) ELSE known
    /\ UNCHANGED << variant, clock, pdfs, metadata, uploads, deletes, faulted,
                    raced, delOk, requests >>


\* ------------------------------------------------------ filesystem revision
\* The metadata object of the filesystem revision: no contentType member.
FsMetadata(uniqueId, buffer, form, now) ==
    [ id |-> uniqueId,
      originalName |-> OrDefault(form.originalName, DefaultOriginalName),
      buyerName |-> OrDefault(form.buyerName, DefaultBuyerName),
      uploadDate |-> ToISOString(now),
      fileSize |-> Len(buffer) ]

\* fs.writeFileSync(filepath, buffer), then fs.writeFileSync(metadataPath, json):
\* thrown == "none", or the write that throws ("pdf", "meta"); the handler runs
\* to its response without giving way to another request.
WriteFiles(uniqueId, buffer, m, sent, thrown, now) ==
    LET json == JSONstringify(m, FilesystemFields)
        req == [ pdf |-> IF thrown = "pdf" THEN "failed" ELSE "ok",
                 meta |-> IF thrown = "none" THEN "ok"
                          ELSE IF thrown = "meta" THEN "failed" ELSE "skipped",
                 answered |-> IF thrown = "none" THEN 200 ELSE 500,
                 buffer |-> buffer, json |-> json, metadata |-> m, sent |-> sent ]
    IN  /\ thrown = "none" \/ faults < MaxFaults
        /\ clock' = now
        /\ Receive
        /\ faults' = IF thrown = "none" THEN faults ELSE faults + 1
        /\ faulted' = IF thrown = "none" THEN faulted ELSE faulted \cup {uniqueId}
        /\ pdfs' = IF thrown = "pdf" THEN pdfs ELSE PutObject(pdfs, uniqueId, buffer)
        /\ metadata' = IF thrown = "none"
                       THEN PutObject(metadata, uniqueId, json) ELSE metadata
        /\ uploads' = PutObject(uploads, uniqueId, req)
        /\ res' = UploadResponse(uniqueId, req, thrown)
        /\ known' = IF thrown = "none" THEN known \cup {uniqueId} ELSE known
        /\ UNCHANGED << variant, deletes, reader, raced, delOk >>

FsUploadPdf ==
    /\ variant = "fs"
    /\ \E file \in Files, form \in Forms, uniqueId \in Ids \ DOMAIN uploads,
          thrown \in {"none", "pdf", "meta"}, now \in Now :
          WriteFiles(uniqueId, file.buffer,
                     FsMetadata(uniqueId, file.buffer, form, now),
                     [ bytes |-> file.buffer, originalName |-> form.originalName,
                       buyerName |-> form.buyerName ], thrown, now)

FsUploadPdfBase64 ==
    /\ variant = "fs"
    /\ \E b \in ClientBytes, head \in Heads, form \in Forms,
          uniqueId \in Ids \ DOMAIN uploads, thrown \in {"none", "pdf", "meta"},
          now \in Now :
          LET pdfData == head \o Base64Encode(b)
              buffer == BufferFromBase64(StripDataUrl(pdfData))
          IN  WriteFiles(uniqueId, buffer, FsMetadata(uniqueId, buffer, form, now),
                         [ bytes |-> b, originalName |-> form.originalName,
                           buyerName |-> form.buyerName ], thrown, now)

\* GET /pdf/:id of the filesystem revision.
FsGetPdf ==
    /\ variant = "fs"
    /\ Receive
    /\ \E id \in Ids :
          LET r == [ Response("pdf", id, 0) EXCEPT
                        !.afterUp = UploadAnswered(id), !.bare = Bare(id) ]
              m == IF id \in DOMAIN metadata THEN JSONparse(metadata[id])
                   ELSE [originalName |-> ""]
          IN  res' = IF id \notin DOMAIN pdfs
                     THEN [r EXCEPT !.status = 404]
                     ELSE [r EXCEPT !.status = 200, !.body = pdfs[id],
                              !.filename = OrDefault(m.originalName, DefaultFilename)]
    /\ UNCHANGED << variant, clock, pdfs, metadata, uploads, deletes, reader,
                    known, faults, faulted, raced, delOk >>

\* GET /pdf/:id/info of the filesystem revision.
FsGetPdfInfo ==
    /\ variant = "fs"
    /\ Receive
    /\ \E id \in Ids :
          LET r == [ Response("info", id, 0) EXCEPT !.afterUp = UploadAnswered(id) ]
          IN  res' = IF id \notin DOMAIN metadata
                     THEN [r EXCEPT !.status = 404]
                     ELSE [r EXCEPT !.status = 200, !.record = JSONparse(metadata[id])]
    /\ UNCHANGED << variant, clock, pdfs, metadata, uploads, deletes, reader,
                    known, faults, faulted, raced, delOk >>

\* GET /admin/pdfs of the filesystem revision: readdirSync, filter, map, sort.
FsListPdfs ==
    /\ variant = "fs"
    /\ Receive
    /\ \E files \in Orderings(DOMAIN metadata) :
          LET read == [k \in DOMAIN files |->
                          [key |-> files[k], st |-> "ok",
                           val |-> WithUrl(JSONparse(metadata[files[k]]))]]
          IN  /\ res' = ListResponse(read)
              /\ known' = known \cup IdsOf(FilterNotNull(read))
    /\ UNCHANGED << variant, clock, pdfs, metadata, uploads, deletes, reader,
                    faults, faulted, raced, delOk >>

\* ---------------------------------------------------------- specification
Next ==
    \/ UploadNoFile
    \/ UploadNoPdfData
    \/ UploadPdf
    \/ UploadPdfBase64
    \/ PutPdf
    \/ PutMetadata
    \/ DeletePdf
    \/ DeletePdfObject
    \/ DeleteMetadataObject
    \/ GetPdf
    \/ GetPdfFilename
    \/ GetPdfInfo
    \/ ListPdfs
    \/ ListGetObject
    \/ FsUploadPdf
    \/ FsUploadPdfBase64
    \/ FsGetPdf
    \/ FsGetPdfInfo
    \/ FsListPdfs

Spec == Init /\ [][Next]_vars

\* ------------------------------------------------ the listing on its own
\* The server started over a store that already holds documents: any set of
\* at most MaxListed documents, uploaded at any of the dates 0..MaxListedDate.
\* Listings do not depend on one another: the server has two requests to go,
\* enough for one listing to follow another.
ListedIds == 1..MaxListed
ListedDates == 0..MaxListedDate
ListedFile == [buffer |-> <<37, 80>>, mimetype |-> "application/pdf"]
ListedForm == [originalName |-> "a.pdf", buyerName |-> "Bob"]

StoredJson(id, date) ==
    IF variant = "s3"
    THEN JSONstringify(FileMetadata(id, ListedFile, ListedForm, date),
                       ObjectStoreFields)
    ELSE JSONstringify(FsMetadata(id, ListedFile.buffer, ListedForm, date),
                       FilesystemFields)

InitListing ==
    /\ variant \in {"s3", "fs"}
    /\ \E S \in SUBSET ListedIds :
          \E date \in [S -> ListedDates] :
              /\ metadata = [id \in S |-> StoredJson(id, date[id])]
              /\ pdfs = [id \in S |-> ListedFile.buffer]
    /\ clock = MaxListedDate
    /\ uploads = NoObject
    /\ deletes = NoObject
    /\ reader = Idle
    /\ res = Idle
    /\ known = {}
    /\ faults = 0
    /\ faulted = {}
    /\ raced = {}
    /\ delOk = {}
    /\ requests = MaxRequests - 2

NextListing ==
    \/ ListPdfs
    \/ ListGetObject
    \/ FsListPdfs

SpecListing == InitListing /\ [][NextListing]_vars


\* ------------------------------------------------------------- properties
Quiescent(id) == ~UploadInFlight(id) /\ ~DeleteInFlight(id)
Paired(id) == (id \in DOMAIN pdfs) <=> (id \in DOMAIN metadata)
Sent(id) == uploads[id].sent

C2_RoundTrip ==
    ( /\ res.op \in {"pdf", "info"}
      /\ res.afterUp
      /\ ~res.fault
      /\ res.id \notin DOMAIN deletes
      /\ Sent(res.id).originalName # ""
      /\ Sent(res.id).buyerName # "" )
    => /\ res.status = 200
       /\ res.op = "pdf" =>
             /\ res.body = Sent(res.id).bytes
             /\ res.filename = Sent(res.id).originalName
       /\ res.op = "info" =>
             /\ res.record.id = res.id
             /\ res.record.buyerName = Sent(res.id).buyerName

\* The object store served the blob of a document whose upload, with a name
\* and a buyer, had been answered with success.
C2_Witness ==
    /\ variant = "s3"
    /\ res.op = "pdf" /\ res.afterUp /\ ~res.fault
    /\ res.id \notin DOMAIN deletes
    /\ Sent(res.id).originalName = "a.pdf" /\ Sent(res.id).buyerName = "Bob"
    /\ res.status = 200 /\ res.body = <<37, 80>> /\ res.filename = "a.pdf"

\* C3: a GET /pdf/:id or GET /pdf/:id/info that starts after a DELETE of the
\* id was answered with success is answered 404, unless a store call of the
\* read fails.
C3_NotFoundAfterDelete ==
    (res.op \in {"pdf", "info"} /\ res.afterDel /\ ~res.fault)
    => res.status = 404

\* C4: a GET /pdf/:id handled while the blob of the id exists and its metadata
\* does not, and whose blob read does not fail, is answered 200 with the blob
\* and the filename "document.pdf".
C4_MissingMetadataFallback ==
    (res.op = "pdf" /\ res.bare /\ "pdf" \notin res.failed)
    => /\ res.status = 200
       /\ res.body = uploads[res.id].buffer
       /\ res.filename = "document.pdf"

\* The object store held a blob without metadata and the blob was served.
C4_Witness ==
    /\ variant = "s3"
    /\ res.op = "pdf" /\ res.bare /\ res.status = 200
    /\ res.failed = {"meta"} /\ ~res.fault

\* C5: a request one of whose store calls failed is answered with an error
\* status, the metadata read of GET /pdf/:id excepted.
C5_NoErrorSwallowed ==
    (res.op # "none" /\ res.failed # {}
        /\ ~(res.op = "pdf" /\ res.failed = {"meta"}))
    => res.status >= 400

\* C6: a DELETE one of whose two deletes succeeded while the other failed is
\* answered 500, and the object whose delete succeeded is not written back:
\* it stays absent (for the blob: unless a put of the id's own upload was
\* still in flight when the DELETE was issued).
C6_PartialDeleteReported ==
    \A id \in DOMAIN deletes :
        LET d == deletes[id]
        IN  /\ {d.pdf, d.meta} = {"ok", "failed"} => d.answered = 500
            /\ d.pdf = "ok" /\ id \notin raced => id \notin DOMAIN pdfs
            /\ d.meta = "ok" => id \notin DOMAIN metadata

\* A DELETE removed the blob, failed to remove the metadata, and answered 500.
C6_Witness ==
    \E id \in DOMAIN deletes :
        /\ deletes[id].pdf = "ok" /\ deletes[id].meta = "failed"
        /\ deletes[id].answered = 500
        /\ UploadAnswered(id)
        /\ id \notin DOMAIN pdfs /\ id \in DOMAIN metadata

DistinctDates(listed) ==
    \A j, k \in DOMAIN listed :
        j # k => DateOf(listed[j].uploadDate) # DateOf(listed[k].uploadDate)

\* C7: a successful listing returns total equal to the number of records, each
\* record with the url of its own id, every listed record whose read did not
\* fail, and, when the upload dates are pairwise distinct, the records by
\* strictly descending upload date.
C7_ListingOrder ==
    (res.op = "list" /\ res.status = 200)
    => /\ res.total = Len(res.pdfs)
       /\ \A k \in DOMAIN res.pdfs :
             /\ res.pdfs[k].url[3] = "pdf"
             /\ res.pdfs[k].url[4] = res.pdfs[k].id
       /\ res.failed = {} => IdsOf(res.pdfs) = res.listed
       /\ Len(res.pdfs) = Cardinality(IdsOf(res.pdfs))
       /\ DistinctDates(res.pdfs) =>
             \A j, k \in DOMAIN res.pdfs :
                 j < k => DateOf(res.pdfs[j].uploadDate)
                              > DateOf(res.pdfs[k].uploadDate)

\* The object store's listing returned three records of distinct dates, none
\* of them at the place the key order gave it.
C7_Witness ==
    /\ variant = "s3"
    /\ res.op = "list" /\ res.status = 200
    /\ Len(res.pdfs) = 3 /\ DistinctDates(res.pdfs)
    /\ res.pdfs[1].id = 2 /\ res.pdfs[2].id = 3 /\ res.pdfs[3].id = 1

\* C8: every stored metadata record of the object-store revision has
\* contentType "application/pdf".
C8_ContentTypeIsPdf ==
    variant = "s3" =>
        \A id \in DOMAIN metadata :
            LET m == JSONparse(metadata[id])
            IN  "contentType" \in DOMAIN m /\ m.contentType = "application/pdf"

\* C9 as stated: with no DELETE issued and no store failure, every record a
\* listing returns has its blob stored.
C9_ListedBlobStored ==
    ( /\ res.op = "list" /\ res.status = 200
      /\ DOMAIN deletes = {} /\ faults = 0 )
    => \A k \in DOMAIN res.pdfs : res.pdfs[k].id \in DOMAIN pdfs

\* C9, amended: with no DELETE issued and no store failure, every record a
\* listing returns has its blob stored or the blob's put still in flight; and
\* a GET /pdf/:id that starts after the upload of the id was answered with
\* success is not answered 404.
C9_ListedBlobStoredOrInFlight ==
    (DOMAIN deletes = {} /\ faults = 0)
    => /\ (res.op = "list" /\ res.status = 200) =>
             \A k \in DOMAIN res.pdfs :
                 \/ res.pdfs[k].id \in DOMAIN pdfs
                 \/ uploads[res.pdfs[k].id].pdf = "pending"
       /\ (res.op = "pdf" /\ res.afterUp) => res.status # 404

\* A listing returned a record whose blob was not stored yet.
C9_Witness ==
    /\ res.op = "list" /\ res.status = 200
    /\ DOMAIN deletes = {} /\ faults = 0
    /\ \E k \in DOMAIN res.pdfs :
          /\ res.pdfs[k].id \notin DOMAIN pdfs
          /\ uploads[res.pdfs[k].id].pdf = "pending"

\* C10 as stated: a GET /pdf/:id of a successfully uploaded document, none of
\* whose reads hits a store error, is answered 404 or with the bytes and the
\* stored originalName; never 200 under another filename.
C10_FullResponseOrNotFound ==
    (res.op = "pdf" /\ res.afterUp /\ ~res.fault)
    => \/ res.status = 404
       \/ /\ res.status = 200
          /\ res.body = uploads[res.id].buffer
          /\ res.filename = uploads[res.id].metadata.originalName

\* C10, amended: such a GET has three possible outcomes: 404, the bytes with
\* the stored originalName, or the bytes with the fallback filename
\* "document.pdf"; the last only when a DELETE of the id has been issued.
C10_ThreeOutcomes ==
    (res.op = "pdf" /\ res.afterUp /\ ~res.fault)
    => \/ res.status = 404 /\ res.id \in DOMAIN deletes
       \/ /\ res.status = 200
          /\ res.body = uploads[res.id].buffer
          /\ \/ res.filename = uploads[res.id].metadata.originalName
             \/ res.filename = "document.pdf" /\ res.id \in DOMAIN deletes

\* A GET racing a DELETE served the blob under the fallback filename.
C10_Witness ==
    /\ res.op = "pdf" /\ res.afterUp /\ ~res.fault
    /\ res.status = 200 /\ res.filename = "document.pdf"
    /\ res.body = uploads[res.id].buffer
    /\ res.id \in DOMAIN deletes

====
